---- MODULE Spec2Model ----
(***************************************************************************)
(* Budget lifecycle of the piggy backend: the budgets and budget_line_items *)
(* tables (app/models/budget.py), BudgetService                             *)
(* (app/services/budget_service.py) and the budget endpoints                *)
(* (app/api/v1/budget.py).                                                  *)
(*                                                                          *)
(* Money.  Python Decimal values are integers counted in units of 1/12000   *)
(* (one twelfth of a mill), so that x / 12 is exact for every x that is a   *)
(* whole number of mills.  Numeric(12, 2) columns hold whole cents; a value *)
(* is rounded to cents when it is written (ToNumeric) and read back as a    *)
(* Decimal with two places (FromNumeric).                                   *)
(***************************************************************************)
EXTENDS Integers, Sequences, FiniteSets, TLC

MaxBudgetIds == 2
MaxItemIds == 2
MaxLineItems == 2
MaxRequests == 4

VARIABLES db, sessions, begun, last, report

vars == <<db, sessions, begun, last, report>>

----------------------------------------------------------------------------
(* Request inputs *)

Years == {2025, 2026}
Names == {"Annual"}
\* the categories the store is seeded with
Categories ==
    {[id |-> 1, name |-> "Groceries", type |-> "EXPENSE"],
     [id |-> 2, name |-> "Salary", type |-> "INCOME"]}
CategoryIds == {c.id : c \in Categories}
CategoryInputs == CategoryIds
BudgetIdInputs == 1..MaxBudgetIds
ItemIdInputs == 1..MaxItemIds
\* yearly_amount as sent by the client, in mills: 0, 0.006, 0.13
AmountInputs == {0, 6, 130}

Dec(mills) == 12 * mills

UnitsPerCent == 12 * 10

\* Numeric(12, 2): the store rounds a value to 2 places, ties away from zero
ToNumeric(v) ==
    IF v >= 0 THEN (2 * v + UnitsPerCent) \div (2 * UnitsPerCent)
    ELSE -((2 * (-v) + UnitsPerCent) \div (2 * UnitsPerCent))

FromNumeric(c) == c * UnitsPerCent

RECURSIVE SumSeq(_)
SumSeq(s) == IF s = <<>> THEN 0 ELSE Head(s) + SumSeq(Tail(s))

----------------------------------------------------------------------------
(* The store *)

EmptyDb ==
    [budgets |-> {}, line_items |-> {}, categories |-> Categories, transactions |-> {},
     accounts |-> {}]

BudgetRow(id, year, name, total, active) ==
    [id |-> id, year |-> year, name |-> name, total_amount |-> total, is_active |-> active]

LineItemRow(id, b, c, yearly, monthly) ==
    [id |-> id, budget_id |-> b, category_id |-> c, yearly_amount |-> yearly, monthly_amount |-> monthly]


\* what a session has pending when it flushes: INSERTs, UPDATEs of the
\* changed columns only, DELETEs; values are the in-process Decimals
NoWork ==
    [ins_b |-> {}, ins_i |-> {}, upd_b |-> {}, upd_i |-> {},
     del_b |-> {}, del_i |-> {}, null_violation |-> FALSE]

Pick(cols, c, d) == IF c \in DOMAIN cols THEN cols[c] ELSE d

\* UPDATE budgets SET <cols> WHERE id = r.id
ApplyBudgetUpdate(r, cols) ==
    BudgetRow(r.id, Pick(cols, "year", r.year), Pick(cols, "name", r.name),
              IF "total_amount" \in DOMAIN cols THEN ToNumeric(cols["total_amount"])
              ELSE r.total_amount,
              Pick(cols, "is_active", r.is_active))

\* UPDATE budget_line_items SET <cols> WHERE id = r.id
ApplyLineItemUpdate(r, cols) ==
    LineItemRow(r.id, r.budget_id, Pick(cols, "category_id", r.category_id),
                IF "yearly_amount" \in DOMAIN cols THEN ToNumeric(cols["yearly_amount"])
                ELSE r.yearly_amount,
                IF "monthly_amount" \in DOMAIN cols THEN ToNumeric(cols["monthly_amount"])
                ELSE r.monthly_amount)

StoreBudget(r) == BudgetRow(r.id, r.year, r.name, ToNumeric(r.total_amount), r.is_active)

StoreLineItem(r) ==
    LineItemRow(r.id, r.budget_id, r.category_id,
                ToNumeric(r.yearly_amount), ToNumeric(r.monthly_amount))

\* a budgets table created without the unique index on year
UniqueYear_Dropped(B) == TRUE

\* Budget.year: unique=True
UniqueYear(B) == \A a \in B : \A b \in B : a.year = b.year => a.id = b.id

\* a budget_line_items table created without unique_budget_category
UniqueBudgetCategory_Dropped(I) == TRUE

\* UniqueConstraint('budget_id', 'category_id')
UniqueBudgetCategory(I) ==
    \A a \in I : \A b \in I :
        (a.budget_id = b.budget_id /\ a.category_id = b.category_id) => a.id = b.id

\* ForeignKey("budgets.id"), ForeignKey("categories.id")
ForeignKeysHold(B, I, C) ==
    \A i \in I : (\E b \in B : b.id = i.budget_id) /\ (\E c \in C : c.id = i.category_id)

\* sqlalchemy.exc.IntegrityError, with the constraint the store names in it
IntegrityError(constraint) ==
    CASE constraint = "not_null" -> "IntegrityError:not_null"
      [] constraint = "budgets_year_key" -> "IntegrityError:budgets_year_key"
      [] constraint = "unique_budget_category" -> "IntegrityError:unique_budget_category"
      [] OTHER -> "IntegrityError:foreign_key"

\* The statements of one flush, run against store s.  An UPDATE that matches
\* no row raises StaleDataError; a NOT NULL, unique or foreign key violation
\* raises IntegrityError.  On an error s is returned untouched.
Flush(s, w) ==
    LET stale ==
            \/ \E u \in w.upd_b : ~\E r \in s.budgets : r.id = u.id
            \/ \E u \in w.upd_i : ~\E r \in s.line_items : r.id = u.id
        updB(r) == IF \E u \in w.upd_b : u.id = r.id
                   THEN ApplyBudgetUpdate(r, (CHOOSE u \in w.upd_b : u.id = r.id).cols)
                   ELSE r
        updI(r) == IF \E u \in w.upd_i : u.id = r.id
                   THEN ApplyLineItemUpdate(r, (CHOOSE u \in w.upd_i : u.id = r.id).cols)
                   ELSE r
        B == {updB(r) : r \in {x \in s.budgets : x.id \notin w.del_b}}
                \cup {StoreBudget(r) : r \in w.ins_b}
        I == {updI(r) : r \in {x \in s.line_items : x.id \notin w.del_i}}
                \cup {StoreLineItem(r) : r \in w.ins_i}
        violated == IF w.null_violation THEN "not_null"
                    ELSE IF ~UniqueYear(B) THEN "budgets_year_key"
                    ELSE IF ~UniqueBudgetCategory(I) THEN "unique_budget_category"
                    ELSE IF ~ForeignKeysHold(B, I, s.categories) THEN "foreign_key"
                    ELSE ""
    IN  IF stale THEN [error |-> "StaleDataError", db |-> s]
        ELSE IF violated # "" THEN [error |-> IntegrityError(violated), db |-> s]
        ELSE [error |-> "", db |-> [s EXCEPT !.budgets = B, !.line_items = I]]

\* a session that commits what it has flushed when it is closed
Rollback_KeepsFlushed(committed, inTransaction) == inTransaction

\* get_db closes the session of a request that raised: the open transaction
\* is rolled back, whatever it had flushed
Rollback(committed, inTransaction) == committed

----------------------------------------------------------------------------
(* BudgetService: each method is what it reads from the store s and what it
   leaves pending for its commit.  A method that returns or raises before
   its commit is Return(value); otherwise Commit(value, flushed, pending,
   refreshed) gives the value it returns when the commit succeeds, the work of
   an explicit flush() before the commit, the work pending at the commit, and
   the row it refreshes afterwards. *)

NoRefresh == [table |-> "none", id |-> 0]

Return(v) == [done |-> TRUE, ret |-> v, flush1 |-> NoWork, work |-> NoWork, refresh |-> NoRefresh]

Commit(v, f, w, r) == [done |-> FALSE, ret |-> v, flush1 |-> f, work |-> w, refresh |-> r]

NoCols == <<>>

\* a column enters the UPDATE only when the attribute's value changed
Col(name, new, old) == IF new # old THEN name :> new ELSE NoCols

Updates(id, cols) == IF DOMAIN cols = {} THEN {} ELSE {[id |-> id, cols |-> cols]}

get_budget_by_id(s, budget_id) == {b \in s.budgets : b.id = budget_id}

get_budget_by_year(s, year) == {b \in s.budgets : b.year = year}

get_line_item(s, line_item_id) == {i \in s.line_items : i.id = line_item_id}

\* pydantic validators of BudgetCreate / BudgetUpdate / BudgetLineItem*
CurrentYear == 2025

year_must_be_reasonable(v) == v >= CurrentYear - 10 /\ v <= CurrentYear + 10

yearly_amount_must_be_positive(v) == v > 0

create_budget(s, budget_data, newBudgetId, newItemIds) ==
    LET items == budget_data.line_items
        total_amount == SumSeq([i \in 1..Len(items) |-> Dec(items[i].yearly_amount)])
        db_budget == BudgetRow(newBudgetId, budget_data.year, budget_data.name,
                               total_amount, "True")
        line_item(i) == LineItemRow(newItemIds[i], newBudgetId, items[i].category_id,
                                    Dec(items[i].yearly_amount),
                                    Dec(items[i].yearly_amount) \div 12)
    IN  Commit("ok",
               [NoWork EXCEPT !.ins_b = {db_budget}],
               [NoWork EXCEPT !.ins_i = {line_item(i) : i \in 1..Len(items)}],
               [table |-> "budgets", id |-> newBudgetId])

\* update_budget that writes None to is_active when the patch leaves it out
update_budget_UnsetIsActiveWritten(s, budget_id, budget_data) ==
    IF get_budget_by_id(s, budget_id) = {} THEN Return("None")
    ELSE
    LET db_budget == CHOOSE b \in get_budget_by_id(s, budget_id) : TRUE
        is_active == IF budget_data.is_active.kind = "val" THEN budget_data.is_active.v
                     ELSE "None"
        cols == (IF budget_data.year.kind = "val"
                 THEN Col("year", budget_data.year.v, db_budget.year) ELSE NoCols)
                @@ (IF budget_data.name.kind = "val"
                    THEN Col("name", budget_data.name.v, db_budget.name) ELSE NoCols)
                @@ Col("is_active", is_active, db_budget.is_active)
    IN  Commit("ok", NoWork,
               [NoWork EXCEPT !.upd_b = Updates(budget_id, cols),
                              !.null_violation = \/ budget_data.year.kind = "null"
                                                 \/ budget_data.name.kind = "null"],
               [table |-> "budgets", id |-> budget_id])

update_budget(s, budget_id, budget_data) ==
    IF get_budget_by_id(s, budget_id) = {} THEN Return("None")
    ELSE
    LET db_budget == CHOOSE b \in get_budget_by_id(s, budget_id) : TRUE
        is_active == IF budget_data.is_active.kind = "null" THEN "None"
                     ELSE budget_data.is_active.v
        cols == (IF budget_data.year.kind = "val"
                 THEN Col("year", budget_data.year.v, db_budget.year) ELSE NoCols)
                @@ (IF budget_data.name.kind = "val"
                    THEN Col("name", budget_data.name.v, db_budget.name) ELSE NoCols)
                @@ (IF budget_data.is_active.kind # "unset"
                    THEN Col("is_active", is_active, db_budget.is_active) ELSE NoCols)
    IN  Commit("ok", NoWork,
               [NoWork EXCEPT !.upd_b = Updates(budget_id, cols),
                              !.null_violation = \/ budget_data.year.kind = "null"
                                                 \/ budget_data.name.kind = "null"],
               [table |-> "budgets", id |-> budget_id])

\* a line_items relationship that cascades nothing
line_items_cascade_None(s, budget_id) == {}

\* Budget.line_items, cascade="all, delete-orphan": deleting the budget
\* deletes the line items that belong to it
line_items_cascade(s, budget_id) ==
    {i.id : i \in {x \in s.line_items : x.budget_id = budget_id}}

\* delete_budget without its "if not db_budget" return: db.delete(None) raises
delete_budget_NoLookupCheck(s, budget_id) ==
    IF get_budget_by_id(s, budget_id) = {} THEN Return("UnmappedInstanceError")
    ELSE Commit("True", NoWork,
                [NoWork EXCEPT !.del_b = {budget_id},
                               !.del_i = line_items_cascade(s, budget_id)],
                NoRefresh)

delete_budget(s, budget_id) ==
    IF get_budget_by_id(s, budget_id) = {} THEN Return("False")
    ELSE Commit("True", NoWork,
                [NoWork EXCEPT !.del_b = {budget_id},
                               !.del_i = line_items_cascade(s, budget_id)],
                NoRefresh)

\* add_budget_line_item without its "if existing" return
add_budget_line_item_NoDuplicateCheck(s, budget_id, item_data, newItemId) ==
    IF get_budget_by_id(s, budget_id) = {} THEN Return("None")
    ELSE
    LET db_budget == CHOOSE b \in get_budget_by_id(s, budget_id) : TRUE
        yearly == Dec(item_data.yearly_amount)
        line_item == LineItemRow(newItemId, budget_id, item_data.category_id,
                                 yearly, yearly \div 12)
        total == FromNumeric(db_budget.total_amount)
    IN  Commit("ok", NoWork,
               [NoWork EXCEPT !.ins_i = {line_item},
                              !.upd_b = Updates(budget_id,
                                                Col("total_amount", total + yearly, total))],
               [table |-> "line_items", id |-> newItemId])

add_budget_line_item(s, budget_id, item_data, newItemId) ==
    IF get_budget_by_id(s, budget_id) = {} THEN Return("None")
    ELSE IF \E i \in s.line_items :
                i.budget_id = budget_id /\ i.category_id = item_data.category_id
         THEN Return("None")
    ELSE
    LET db_budget == CHOOSE b \in get_budget_by_id(s, budget_id) : TRUE
        yearly == Dec(item_data.yearly_amount)
        line_item == LineItemRow(newItemId, budget_id, item_data.category_id,
                                 yearly, yearly \div 12)
        total == FromNumeric(db_budget.total_amount)
    IN  Commit("ok", NoWork,
               [NoWork EXCEPT !.ins_i = {line_item},
                              !.upd_b = Updates(budget_id,
                                                Col("total_amount", total + yearly, total))],
               [table |-> "line_items", id |-> newItemId])

\* update_budget_line_item that leaves monthly_amount as it was
update_budget_line_item_StaleMonthly(s, line_item_id, item_data) ==
    IF get_line_item(s, line_item_id) = {} THEN Return("None")
    ELSE IF item_data.yearly_amount.kind = "null" THEN Return("TypeError")
    ELSE
    LET line_item == CHOOSE i \in get_line_item(s, line_item_id) : TRUE
        old_amount == FromNumeric(line_item.yearly_amount)
        supplied == item_data.yearly_amount.kind = "val"
        yearly == IF supplied THEN Dec(item_data.yearly_amount.v) ELSE old_amount
        icols == (IF item_data.category_id.kind = "val"
                  THEN Col("category_id", item_data.category_id.v, line_item.category_id)
                  ELSE NoCols)
                 @@ (IF supplied THEN Col("yearly_amount", yearly, old_amount) ELSE NoCols)
        budget == get_budget_by_id(s, line_item.budget_id)
        bupd == IF supplied /\ budget # {}
                THEN LET total == FromNumeric((CHOOSE b \in budget : TRUE).total_amount)
                     IN  Updates(line_item.budget_id,
                                 Col("total_amount", total - old_amount + yearly, total))
                ELSE {}
    IN  Commit("ok", NoWork,
               [NoWork EXCEPT !.upd_i = Updates(line_item_id, icols),
                              !.upd_b = bupd,
                              !.null_violation = item_data.category_id.kind = "null"],
               [table |-> "line_items", id |-> line_item_id])

update_budget_line_item(s, line_item_id, item_data) ==
    IF get_line_item(s, line_item_id) = {} THEN Return("None")
    ELSE IF item_data.yearly_amount.kind = "null" THEN Return("TypeError")
    ELSE
    LET line_item == CHOOSE i \in get_line_item(s, line_item_id) : TRUE
        old_amount == FromNumeric(line_item.yearly_amount)
        supplied == item_data.yearly_amount.kind = "val"
        yearly == IF supplied THEN Dec(item_data.yearly_amount.v) ELSE old_amount
        icols == (IF item_data.category_id.kind = "val"
                  THEN Col("category_id", item_data.category_id.v, line_item.category_id)
                  ELSE NoCols)
                 @@ (IF supplied
                     THEN Col("yearly_amount", yearly, old_amount)
                          @@ Col("monthly_amount", yearly \div 12,
                                 FromNumeric(line_item.monthly_amount))
                     ELSE NoCols)
        budget == get_budget_by_id(s, line_item.budget_id)
        bupd == IF supplied /\ budget # {}
                THEN LET total == FromNumeric((CHOOSE b \in budget : TRUE).total_amount)
                     IN  Updates(line_item.budget_id,
                                 Col("total_amount", total - old_amount + yearly, total))
                ELSE {}
    IN  Commit("ok", NoWork,
               [NoWork EXCEPT !.upd_i = Updates(line_item_id, icols),
                              !.upd_b = bupd,
                              !.null_violation = item_data.category_id.kind = "null"],
               [table |-> "line_items", id |-> line_item_id])

delete_budget_line_item(s, line_item_id) ==
    IF get_line_item(s, line_item_id) = {} THEN Return("False")
    ELSE
    LET line_item == CHOOSE i \in get_line_item(s, line_item_id) : TRUE
        budget == get_budget_by_id(s, line_item.budget_id)
        bupd == IF budget # {}
                THEN LET total == FromNumeric((CHOOSE b \in budget : TRUE).total_amount)
                     IN  Updates(line_item.budget_id,
                                 Col("total_amount",
                                     total - FromNumeric(line_item.yearly_amount), total))
                ELSE {}
    IN  Commit("True", NoWork,
               [NoWork EXCEPT !.upd_b = bupd, !.del_i = {line_item_id}],
               NoRefresh)

\* the existing_active query with the year left out of its filter
existing_active_results_AnyYear(s, budget_id) ==
    LET target == get_budget_by_id(s, budget_id)
        rows == {b \in s.budgets : /\ target # {}
                                   /\ b.is_active = "True"
                                   /\ b.id # budget_id}
    IN  IF rows = {} THEN {{}} ELSE {{b} : b \in rows}

\* the rows the existing_active query of set_active_budget can return (.first()
\* of an unordered query: any one of them, or none when there is none)
existing_active_results(s, budget_id) ==
    LET target == get_budget_by_id(s, budget_id)
        rows == {b \in s.budgets : /\ \E t \in target : b.year = t.year
                                   /\ b.is_active = "True"
                                   /\ b.id # budget_id}
    IN  IF rows = {} THEN {{}} ELSE {{b} : b \in rows}

\* set_active_budget that deactivates the other budget and forgets the target
set_active_budget_NoActivate(s, budget_id, existing_active) ==
    IF get_budget_by_id(s, budget_id) = {} THEN Return("None")
    ELSE Commit("ok", NoWork,
                [NoWork EXCEPT !.upd_b =
                    {[id |-> e.id, cols |-> "is_active" :> "False"] : e \in existing_active}],
                [table |-> "budgets", id |-> budget_id])

set_active_budget(s, budget_id, existing_active) ==
    IF get_budget_by_id(s, budget_id) = {} THEN Return("None")
    ELSE
    LET target_budget == CHOOSE b \in get_budget_by_id(s, budget_id) : TRUE
    IN  Commit("ok", NoWork,
               [NoWork EXCEPT !.upd_b =
                    {[id |-> e.id, cols |-> "is_active" :> "False"] : e \in existing_active}
                    \cup Updates(budget_id,
                                 Col("is_active", "True", target_budget.is_active))],
               [table |-> "budgets", id |-> budget_id])

\* the row a method refreshes after its commit must still be there
Refreshable(s, r) ==
    \/ r.table = "none"
    \/ r.table = "budgets" /\ get_budget_by_id(s, r.id) # {}
    \/ r.table = "line_items" /\ get_line_item(s, r.id) # {}

\* One unit of work p run to its end against store s: the explicit flush, the
\* flush of the commit, the commit, the refresh.
Execute(s, p) ==
    IF p.done THEN [ret |-> p.ret, db |-> s]
    ELSE LET t1 == Flush(s, p.flush1) IN
         IF t1.error # "" THEN [ret |-> t1.error, db |-> Rollback(s, s)]
         ELSE LET t2 == Flush(t1.db, p.work) IN
              IF t2.error # "" THEN [ret |-> t2.error, db |-> Rollback(s, t1.db)]
              ELSE IF ~Refreshable(t2.db, p.refresh)
                   THEN [ret |-> "InvalidRequestError", db |-> t2.db]
                   ELSE [ret |-> p.ret, db |-> t2.db]

----------------------------------------------------------------------------
(* The endpoints of app/api/v1/budget.py that check before they call *)

\* the endpoint without its lookup of the year
api_create_budget_NoYearCheck(s, budget, newBudgetId, newItemIds) ==
    create_budget(s, budget, newBudgetId, newItemIds)

api_create_budget(s, budget, newBudgetId, newItemIds) ==
    IF get_budget_by_year(s, budget.year) # {} THEN Return("409")
    ELSE create_budget(s, budget, newBudgetId, newItemIds)

api_update_budget(s, budget_id, budget_update) ==
    IF /\ budget_update.year.kind = "val"
       /\ \E existing \in get_budget_by_year(s, budget_update.year.v) :
              existing.id # budget_id
    THEN Return("409")
    ELSE LET p == update_budget(s, budget_id, budget_update)
         IN  IF p.done /\ p.ret = "None" THEN Return("404") ELSE p

----------------------------------------------------------------------------
(* Requests.  The arguments of the service are pydantic objects: a request
   whose body fails a validator never reaches the service. *)

YearInputs == Years \cup {1900}

LineItemInputs == [category_id : CategoryInputs, yearly_amount : AmountInputs]

LineItemLists == UNION {[1..n -> LineItemInputs] : n \in 0..MaxLineItems}

BudgetCreateInputs == [year : YearInputs, name : Names, line_items : LineItemLists]

Unset == [kind |-> "unset", v |-> 0]
Null == [kind |-> "null", v |-> 0]
Val(x) == [kind |-> "val", v |-> x]
UnsetS == [kind |-> "unset", v |-> ""]

BudgetUpdateInputs ==
    [year : {Unset, Null} \cup {Val(y) : y \in YearInputs},
     name : {UnsetS} \cup {Val(n) : n \in Names},
     is_active : {UnsetS, Val("True"), Val("False")}]

BudgetLineItemUpdateInputs ==
    [category_id : {Unset, Null} \cup {Val(c) : c \in CategoryInputs},
     yearly_amount : {Unset, Null} \cup {Val(a) : a \in AmountInputs}]

ValidBudgetCreate(d) ==
    /\ year_must_be_reasonable(d.year)
    /\ \A i \in 1..Len(d.line_items) :
           yearly_amount_must_be_positive(d.line_items[i].yearly_amount)

ValidBudgetUpdate(d) == d.year.kind = "val" => year_must_be_reasonable(d.year.v)

ValidBudgetLineItemUpdate(d) ==
    d.yearly_amount.kind = "val" => yearly_amount_must_be_positive(d.yearly_amount.v)

\* the last request served and its outcome
Response(op, ret, id) == [op |-> op, ret |-> ret, id |-> id]

NoResponse == Response("", "", 0)

\* the body of the last response, when the last request was a report
NoReport == [op |-> "", id |-> 0, month |-> 0, body |-> [found |-> FALSE]]

----------------------------------------------------------------------------
(* uuid.uuid4(): an id no row and no request in progress holds; the model
   takes the smallest such number *)

RECURSIVE Smallest(_, _)
Smallest(S, n) ==
    IF n = 0 THEN <<>>
    ELSE LET m == CHOOSE x \in S : \A y \in S : x <= y
         IN  <<m>> \o Smallest(S \ {m}, n - 1)

FreshBudgetIds(used) == (1..MaxBudgetIds) \ used

FreshItemIds(used) == (1..MaxItemIds) \ used

BudgetIdsOf(s) == {b.id : b \in s.budgets}

ItemIdsOf(s) == {i.id : i \in s.line_items}

----------------------------------------------------------------------------
(* Requests served one at a time *)

Init ==
    /\ db = EmptyDb
    /\ sessions = <<>>
    /\ begun = 0
    /\ last = NoResponse
    /\ report = NoReport

Serve(p, resp) ==
    \E r \in {Execute(db, p)} :
    /\ db' = r.db
    /\ last' = [resp EXCEPT !.ret = r.ret]
    /\ report' = NoReport
    /\ UNCHANGED <<sessions, begun>>

CreateBudgetOf(d) ==
    /\ ValidBudgetCreate(d)
    /\ FreshBudgetIds(BudgetIdsOf(db)) # {}
    /\ Cardinality(FreshItemIds(ItemIdsOf(db))) >= Len(d.line_items)
    /\ LET b == Smallest(FreshBudgetIds(BudgetIdsOf(db)), 1)[1]
           ids == Smallest(FreshItemIds(ItemIdsOf(db)), Len(d.line_items))
       IN  Serve(create_budget(db, d, b, ids), Response("create_budget", "", b))

CreateBudget == \E d \in BudgetCreateInputs : CreateBudgetOf(d)

UpdateBudgetOf(id, d) ==
    /\ ValidBudgetUpdate(d)
    /\ Serve(update_budget(db, id, d), Response("update_budget", "", id))

UpdateBudget == \E id \in BudgetIdInputs, d \in BudgetUpdateInputs : UpdateBudgetOf(id, d)

DeleteBudget ==
    \E id \in BudgetIdInputs :
        Serve(delete_budget(db, id), Response("delete_budget", "", id))

AddLineItemOf(id, d) ==
    /\ yearly_amount_must_be_positive(d.yearly_amount)
    /\ LET free == FreshItemIds(ItemIdsOf(db))
           p == add_budget_line_item(db, id, d,
                                     IF free = {} THEN 0 ELSE Smallest(free, 1)[1])
       IN  /\ p.done \/ free # {}
           /\ Serve(p, Response("add_budget_line_item", "", id))

AddLineItem == \E id \in BudgetIdInputs, d \in LineItemInputs : AddLineItemOf(id, d)

UpdateLineItemOf(id, d) ==
    /\ ValidBudgetLineItemUpdate(d)
    /\ Serve(update_budget_line_item(db, id, d),
             Response("update_budget_line_item", "", id))

UpdateLineItem ==
    \E id \in ItemIdInputs, d \in BudgetLineItemUpdateInputs : UpdateLineItemOf(id, d)

DeleteLineItem ==
    \E id \in ItemIdInputs :
        Serve(delete_budget_line_item(db, id), Response("delete_budget_line_item", "", id))

SetActiveBudget ==
    \E id \in BudgetIdInputs :
        \E e \in existing_active_results(db, id) :
            Serve(set_active_budget(db, id, e), Response("set_active_budget", "", id))

Next ==
    \/ CreateBudget
    \/ UpdateBudget
    \/ DeleteBudget
    \/ AddLineItem
    \/ UpdateLineItem
    \/ DeleteLineItem
    \/ SetActiveBudget

Spec == Init /\ [][Next]_vars

----------------------------------------------------------------------------
(* Properties of the service, requests served one at a time *)

RECURSIVE SumYearly(_)
SumYearly(I) ==
    IF I = {} THEN 0
    ELSE LET i == CHOOSE x \in I : TRUE IN i.yearly_amount + SumYearly(I \ {i})

LineItemsOf(s, budget_id) == {i \in s.line_items : i.budget_id = budget_id}

\* C1: every budget's total_amount equals the sum of the yearly_amount of its
\* line items, in every state reached by lifecycle operations run one at a time
C1_TotalEqualsLineItemSum ==
    \A b \in db.budgets : b.total_amount = SumYearly(LineItemsOf(db, b.id))

\* C3 as stated: every stored monthly_amount is exactly a twelfth of the stored
\* yearly_amount
C3_MonthlyIsExactTwelfth ==
    \A i \in db.line_items : 12 * i.monthly_amount = i.yearly_amount

\* a supplied amount of m mills, divided by 12, in cents rounded half up
RoundedTwelfth(m) == (m + 60) \div 120

\* C3 as amended: CreateBudget, AddLineItem and an UpdateLineItem that supplies
\* yearly_amount store monthly_amount = the supplied yearly_amount / 12 rounded
\* to 2 decimal places
C3_MonthlyIsRoundedTwelfth ==
    [][/\ (last'.op = "create_budget" /\ last'.ret = "ok") =>
            \A d \in BudgetCreateInputs : CreateBudgetOf(d) =>
                \A k \in 1..Len(d.line_items) :
                    \E i \in LineItemsOf(db', last'.id) :
                        /\ i.category_id = d.line_items[k].category_id
                        /\ i.monthly_amount = RoundedTwelfth(d.line_items[k].yearly_amount)
       /\ (last'.op = "add_budget_line_item" /\ last'.ret = "ok") =>
            \A d \in LineItemInputs : AddLineItemOf(last'.id, d) =>
                \E i \in db'.line_items \ db.line_items :
                    /\ i.category_id = d.category_id
                    /\ i.monthly_amount = RoundedTwelfth(d.yearly_amount)
       /\ (last'.op = "update_budget_line_item" /\ last'.ret = "ok") =>
            \A d \in BudgetLineItemUpdateInputs :
                (d.yearly_amount.kind = "val" /\ UpdateLineItemOf(last'.id, d)) =>
                    \E i \in db'.line_items :
                        /\ i.id = last'.id
                        /\ i.monthly_amount = RoundedTwelfth(d.yearly_amount.v)
      ]_vars

\* a budget was just created with a line item of 0.13 a year, 0.01 a month
C3_Witness ==
    /\ last.op = "create_budget" /\ last.ret = "ok"
    /\ \E i \in LineItemsOf(db, last.id) : i.yearly_amount = 13 /\ i.monthly_amount = 1

\* C4: after SetActiveBudget(B) succeeds, B is active and is the only active
\* budget of its year
C4_SetActiveYieldsOneActive ==
    (last.op = "set_active_budget" /\ last.ret = "ok") =>
        \E B \in db.budgets :
            /\ B.id = last.id
            /\ B.is_active = "True"
            /\ {b \in db.budgets : b.year = B.year /\ b.is_active = "True"} = {B}

\* SetActiveBudget succeeded while a budget of another year is active too
C4_Witness ==
    /\ last.op = "set_active_budget" /\ last.ret = "ok"
    /\ \E B \in db.budgets : \E O \in db.budgets :
            B.id = last.id /\ O.id # B.id /\ O.is_active = "True"

\* C7: AddLineItem for a category the budget already has returns None, creates
\* no line item and changes no budget and no line item
C7_DuplicateAddChangesNothing ==
    [][last'.op = "add_budget_line_item" =>
        \A d \in LineItemInputs :
            (/\ \E i \in LineItemsOf(db, last'.id) : i.category_id = d.category_id
             /\ AddLineItemOf(last'.id, d))
            => (last'.ret = "None" /\ db' = db)
      ]_vars

\* AddLineItem returned None on a budget that exists: its category was taken
C7_Witness ==
    /\ last.op = "add_budget_line_item" /\ last.ret = "None"
    /\ last.id \in BudgetIdsOf(db)
    /\ LineItemsOf(db, last.id) # {}

\* C8: no budget has two line items with the same category_id
C8_CategoryOncePerBudget ==
    \A i \in db.line_items : \A j \in db.line_items :
        (i # j /\ i.budget_id = j.budget_id) => i.category_id # j.category_id

\* an UpdateLineItem that moved a line item onto its sibling's category was refused
C8_Witness ==
    /\ last.op = "update_budget_line_item"
    /\ last.ret = "IntegrityError:unique_budget_category"
    /\ \E i \in db.line_items : \E j \in db.line_items :
            i.id = last.id /\ j.id # i.id /\ j.budget_id = i.budget_id

\* C9: a CreateBudget that fails leaves neither the budget nor any of its line
\* items; one that succeeds leaves the budget and all the supplied line items
C9_CreateAllOrNothing ==
    [][last'.op = "create_budget" =>
        \A d \in BudgetCreateInputs : CreateBudgetOf(d) =>
            IF last'.ret = "ok"
            THEN /\ \E b \in db'.budgets : b.id = last'.id /\ b.year = d.year
                 /\ Cardinality(LineItemsOf(db', last'.id)) = Len(d.line_items)
                 /\ \A k \in 1..Len(d.line_items) :
                        \E i \in LineItemsOf(db', last'.id) :
                            i.category_id = d.line_items[k].category_id
                 /\ db.budgets \subseteq db'.budgets
                 /\ db.line_items \subseteq db'.line_items
            ELSE /\ db' = db
                 /\ last'.id \notin BudgetIdsOf(db')
                 /\ LineItemsOf(db', last'.id) = {}
      ]_vars

\* a CreateBudget failed at its commit, after its budget row was flushed
C9_Witness ==
    /\ last.op = "create_budget"
    /\ last.ret = "IntegrityError:unique_budget_category"
    /\ last.id \notin BudgetIdsOf(db)

BudgetOps == {"update_budget", "delete_budget", "set_active_budget", "add_budget_line_item"}

LineItemOps == {"update_budget_line_item", "delete_budget_line_item"}

\* C10: a lifecycle operation called with an unknown id returns None (False
\* for the deletes) and changes no budget and no line item
C10_UnknownIdChangesNothing ==
    [][(\/ last'.op \in BudgetOps /\ last'.id \notin BudgetIdsOf(db)
        \/ last'.op \in LineItemOps /\ last'.id \notin ItemIdsOf(db))
       => /\ last'.ret = IF last'.op \in {"delete_budget", "delete_budget_line_item"}
                         THEN "False" ELSE "None"
          /\ db' = db
      ]_vars

\* DeleteBudget was called with an id no budget has, while other budgets exist
C10_Witness ==
    /\ last.op = "delete_budget" /\ last.ret = "False"
    /\ last.id \notin BudgetIdsOf(db)
    /\ db.budgets # {}

----------------------------------------------------------------------------
(* Requests served concurrently.  Each request runs in a worker thread with a
   session of its own (get_db).  Its queries read the committed store; what it
   changes stays in its session until its commit, whose statements overwrite the
   rows as they are then (READ COMMITTED, no SELECT ... FOR UPDATE anywhere). *)

Workers == {1, 2}

Idle == [op |-> "", id |-> 0, plan |-> Return("")]

HttpBudgetCreateInputs ==
    [year : Years, name : Names,
     line_items : {<<>>, <<[category_id |-> 1, yearly_amount |-> 130]>>}]

HttpBudgetUpdateInputs ==
    {[year |-> Val(y), name |-> UnsetS, is_active |-> UnsetS] : y \in Years}
    \cup {[year |-> Unset, name |-> UnsetS, is_active |-> Val(a)] : a \in {"True", "False"}}

HttpLineItemInputs == [category_id : CategoryIds, yearly_amount : {130}]

HttpLineItemUpdateInputs ==
    {[category_id |-> Unset, yearly_amount |-> Val(250)],
     [category_id |-> Val(2), yearly_amount |-> Unset]}

\* ids held by the requests in progress
ReservedBudgetIds ==
    UNION {{r.id : r \in sessions[w].plan.flush1.ins_b} : w \in Workers}

ReservedItemIds ==
    UNION {{r.id : r \in sessions[w].plan.work.ins_i} : w \in Workers}

InitHttp ==
    /\ db = EmptyDb
    /\ sessions = [w \in Workers |-> Idle]
    /\ begun = 0
    /\ last = NoResponse
    /\ report = NoReport

Respond(w, op, ret, id) ==
    /\ last' = Response(op, ret, id)
    /\ report' = NoReport
    /\ sessions' = [sessions EXCEPT ![w] = Idle]

\* the handler runs up to its commit: an early return or an error of the
\* explicit flush ends the request, otherwise the session waits to commit
Begin(w, op, id, p) ==
    /\ sessions[w] = Idle
    /\ begun < MaxRequests
    /\ begun' = begun + 1
    /\ UNCHANGED db
    /\ IF p.done THEN Respond(w, op, p.ret, id)
       ELSE IF Flush(db, p.flush1).error # ""
            THEN Respond(w, op, Flush(db, p.flush1).error, id)
            ELSE /\ sessions' = [sessions EXCEPT ![w] = [op |-> op, id |-> id, plan |-> p]]
                 /\ UNCHANGED <<last, report>>

BeginCreateBudgetOf(w, d) ==
    /\ ValidBudgetCreate(d)
    /\ FreshBudgetIds(BudgetIdsOf(db) \cup ReservedBudgetIds) # {}
    /\ Cardinality(FreshItemIds(ItemIdsOf(db) \cup ReservedItemIds)) >= Len(d.line_items)
    /\ LET b == Smallest(FreshBudgetIds(BudgetIdsOf(db) \cup ReservedBudgetIds), 1)[1]
           ids == Smallest(FreshItemIds(ItemIdsOf(db) \cup ReservedItemIds),
                           Len(d.line_items))
       IN  Begin(w, "api_create_budget", b, api_create_budget(db, d, b, ids))

BeginCreateBudget ==
    \E w \in Workers, d \in HttpBudgetCreateInputs : BeginCreateBudgetOf(w, d)

BeginUpdateBudgetOf(w, id, d) ==
    /\ ValidBudgetUpdate(d)
    /\ Begin(w, "api_update_budget", id, api_update_budget(db, id, d))

BeginUpdateBudget ==
    \E w \in Workers, id \in BudgetIdInputs, d \in HttpBudgetUpdateInputs :
        BeginUpdateBudgetOf(w, id, d)

BeginDeleteBudget ==
    \E w \in Workers, id \in BudgetIdInputs :
        Begin(w, "delete_budget", id, delete_budget(db, id))

BeginAddLineItem ==
    \E w \in Workers, id \in BudgetIdInputs, d \in HttpLineItemInputs :
        LET free == FreshItemIds(ItemIdsOf(db) \cup ReservedItemIds)
            p == add_budget_line_item(db, id, d,
                                      IF free = {} THEN 0 ELSE Smallest(free, 1)[1])
        IN  /\ p.done \/ free # {}
            /\ Begin(w, "add_budget_line_item", id, p)

BeginUpdateLineItem ==
    \E w \in Workers, id \in ItemIdInputs, d \in HttpLineItemUpdateInputs :
        Begin(w, "update_budget_line_item", id, update_budget_line_item(db, id, d))

BeginDeleteLineItem ==
    \E w \in Workers, id \in ItemIdInputs :
        Begin(w, "delete_budget_line_item", id, delete_budget_line_item(db, id))

BeginSetActiveBudget ==
    \E w \in Workers, id \in BudgetIdInputs :
        \E e \in existing_active_results(db, id) :
            Begin(w, "set_active_budget", id, set_active_budget(db, id, e))

\* db.commit() and what follows it in the handler
CommitRequest ==
    \E w \in Workers :
        /\ sessions[w] # Idle
        /\ \E r \in {Execute(db, sessions[w].plan)} :
            /\ db' = r.db
            /\ Respond(w, sessions[w].op, r.ret, sessions[w].id)
        /\ UNCHANGED begun

NextHttp ==
    \/ BeginCreateBudget
    \/ BeginUpdateBudget
    \/ BeginDeleteBudget
    \/ BeginAddLineItem
    \/ BeginUpdateLineItem
    \/ BeginDeleteLineItem
    \/ BeginSetActiveBudget
    \/ CommitRequest

SpecHttp == InitHttp /\ [][NextHttp]_vars

----------------------------------------------------------------------------
(* Claims about concurrent requests, checked under SpecHttp. *)

\* C2: under concurrent line-item mutations of one budget, every committed
\* state has total_amount equal to the sum of the line items' yearly_amount
C2_CommittedTotalEqualsLineItemSum ==
    \A b \in db.budgets : b.total_amount = SumYearly(LineItemsOf(db, b.id))

\* C5: no year has more than one active budget, whatever SetActiveBudget,
\* CreateBudget and UpdateBudget requests run concurrently
C5_AtMostOneActivePerYear ==
    \A a \in db.budgets : \A b \in db.budgets :
        (a.year = b.year /\ a.is_active = "True" /\ b.is_active = "True") => a = b

\* a SetActiveBudget and a CreateBudget or UpdateBudget are in progress at once
\* while a budget is active
C5_Witness ==
    /\ \E w1 \in Workers : \E w2 \in Workers :
            /\ sessions[w1].op = "set_active_budget"
            /\ sessions[w2].op \in {"api_create_budget", "api_update_budget"}
    /\ \E b \in db.budgets : b.is_active = "True"

ApiBudgetOps == {"api_create_budget", "api_update_budget"}

----------------------------------------------------------------------------
(* Claims about the outcome of conflicts, checked under Spec. *)

\* C11: no lifecycle operation of the service raises on a conflict (a year that
\* is taken, a category the budget already has); it returns the absent result
C11_ConflictNeverRaises ==
    last.ret \notin {"IntegrityError:budgets_year_key",
                     "IntegrityError:unique_budget_category"}

----------------------------------------------------------------------------
(* Transactions and the reports of BudgetService.  A transaction's amount is a
   Decimal of at most 2 places (TransactionBase.amount), held here in cents;
   its type is any string the client sends, whatever the type of its category. *)

MaxTransactions == 2

TransactionIdInputs == 1..MaxTransactions

Months == {1, 2}

TransactionTypes == {"INCOME", "EXPENSE"}

TransactionRow(id, c, amount, year, month, type) ==
    [id |-> id, category_id |-> c, amount |-> amount, year |-> year,
     month |-> month, type |-> type]

TransactionInputs ==
    [category_id : CategoryIds, amount : {5}, year : Years, month : Months,
     type : TransactionTypes]

RECURSIVE SumAmount(_)
\* func.sum(Transaction.amount): NULL (None) over no rows, here 0 as "or Decimal('0')" makes it
SumAmount(T) ==
    IF T = {} THEN 0
    ELSE LET t == CHOOSE x \in T : TRUE IN t.amount + SumAmount(T \ {t})

\* float(d) of a Decimal amount: the nearest binary64, which prints back as
\* the same decimal for the amounts a Numeric(12, 2) column can hold
ToFloat(cents) == cents

\* a percentage, kept as the quotient it is computed from
Percentage(num, den) == [num |-> 100 * num, den |-> den]

ZeroPercentage == [num |-> 0, den |-> 1]

NotFound == [found |-> FALSE]

\* the yearly sum with the transaction type left out of the filter
total_spent_query_AnyType(s, year) ==
    SumAmount({t \in s.transactions : t.year = year})

\* sum(Transaction.amount) where type = 'EXPENSE' and year(transaction_date) = year
total_spent_query(s, year) ==
    SumAmount({t \in s.transactions : t.type = "EXPENSE" /\ t.year = year})

\* the per-category sums with the year left out of the filter
category_spending_query_AnyYear(s, year) ==
    {[id |-> c.id,
      spent |-> SumAmount({t \in s.transactions :
                    t.category_id = c.id /\ t.type = "EXPENSE"})] :
     c \in {x \in s.categories :
                \E t \in s.transactions : t.category_id = x.id /\ t.type = "EXPENSE"}}

\* categories joined with their EXPENSE transactions of the year, grouped by
\* category: one row per category that has such a transaction
category_spending_query(s, year) ==
    {[id |-> c.id,
      spent |-> SumAmount({t \in s.transactions :
                    t.category_id = c.id /\ t.type = "EXPENSE" /\ t.year = year})] :
     c \in {x \in s.categories :
                \E t \in s.transactions :
                    t.category_id = x.id /\ t.type = "EXPENSE" /\ t.year = year}}

\* the loop over category_spending: the first row of the line item's category
spent_of(category_spending, line_item) ==
    IF \E cat_spend \in category_spending : cat_spend.id = line_item.category_id
    THEN (CHOOSE cat_spend \in category_spending :
                cat_spend.id = line_item.category_id).spent
    ELSE 0

\* get_budget_summary that divides without looking at the denominator
get_budget_summary_NoZeroGuard(s, budget_id) ==
    IF get_budget_by_id(s, budget_id) = {} THEN NotFound
    ELSE
    LET budget == CHOOSE b \in get_budget_by_id(s, budget_id) : TRUE
        total_spent == total_spent_query(s, budget.year)
        category_spending == category_spending_query(s, budget.year)
    IN  [found |-> TRUE,
         total_amount |-> budget.total_amount,
         total_spent |-> total_spent,
         remaining |-> budget.total_amount - total_spent,
         progress_percentage |-> Percentage(total_spent, budget.total_amount),
         categories_summary |->
            {[category_id |-> i.category_id,
              budgeted |-> ToFloat(i.yearly_amount),
              spent |-> ToFloat(spent_of(category_spending, i)),
              remaining |-> ToFloat(i.yearly_amount - spent_of(category_spending, i)),
              progress_percentage |->
                 Percentage(spent_of(category_spending, i), i.yearly_amount)] :
             i \in {x \in s.line_items : x.budget_id = budget_id}}]

get_budget_summary(s, budget_id) ==
    IF get_budget_by_id(s, budget_id) = {} THEN NotFound
    ELSE
    LET budget == CHOOSE b \in get_budget_by_id(s, budget_id) : TRUE
        total_spent == total_spent_query(s, budget.year)
        category_spending == category_spending_query(s, budget.year)
    IN  [found |-> TRUE,
         total_amount |-> budget.total_amount,
         total_spent |-> total_spent,
         remaining |-> budget.total_amount - total_spent,
         progress_percentage |->
            IF budget.total_amount > 0 THEN Percentage(total_spent, budget.total_amount)
            ELSE ZeroPercentage,
         categories_summary |->
            {[category_id |-> i.category_id,
              budgeted |-> ToFloat(i.yearly_amount),
              spent |-> ToFloat(spent_of(category_spending, i)),
              remaining |-> ToFloat(i.yearly_amount - spent_of(category_spending, i)),
              progress_percentage |->
                 IF i.yearly_amount > 0
                 THEN Percentage(spent_of(category_spending, i), i.yearly_amount)
                 ELSE ZeroPercentage] :
             i \in {x \in s.line_items : x.budget_id = budget_id}}]

\* the monthly sum with the month left out of the filter
monthly_spent_query_AnyMonth(s, year, month) ==
    SumAmount({t \in s.transactions : t.type = "EXPENSE" /\ t.year = year})

\* sum(Transaction.amount) where type = 'EXPENSE', year and month match
monthly_spent_query(s, year, month) ==
    SumAmount({t \in s.transactions :
                    t.type = "EXPENSE" /\ t.year = year /\ t.month = month})

\* categories joined with their transactions of the month, of either type
monthly_category_spending_query(s, year, month) ==
    {[id |-> c.id,
      spent |-> SumAmount({t \in s.transactions :
                    t.category_id = c.id /\ t.year = year /\ t.month = month})] :
     c \in {x \in s.categories :
                \E t \in s.transactions :
                    t.category_id = x.id /\ t.year = year /\ t.month = month}}

\* amounts of the monthly report are Decimals that no column rounds: they are
\* counted in the unit of Dec, in which total_amount / 12 is exact
get_monthly_budget_progress(s, budget_id, month) ==
    IF get_budget_by_id(s, budget_id) = {} THEN NotFound
    ELSE
    LET budget == CHOOSE b \in get_budget_by_id(s, budget_id) : TRUE
        monthly_budgeted == FromNumeric(budget.total_amount) \div 12
        monthly_spent == FromNumeric(monthly_spent_query(s, budget.year, month))
        category_spending == monthly_category_spending_query(s, budget.year, month)
    IN  [found |-> TRUE,
         month |-> month,
         year |-> budget.year,
         budgeted_amount |-> monthly_budgeted,
         spent_amount |-> monthly_spent,
         remaining_amount |-> monthly_budgeted - monthly_spent,
         progress_percentage |->
            IF monthly_budgeted > 0 THEN Percentage(monthly_spent, monthly_budgeted)
            ELSE ZeroPercentage,
         categories |->
            {[category_id |-> i.category_id,
              monthly_budget |-> ToFloat(i.monthly_amount),
              spent |-> ToFloat(spent_of(category_spending, i)),
              remaining |-> ToFloat(i.monthly_amount - spent_of(category_spending, i)),
              progress_percentage |->
                 IF i.monthly_amount > 0
                 THEN Percentage(spent_of(category_spending, i), i.monthly_amount)
                 ELSE ZeroPercentage] :
             i \in {x \in s.line_items : x.budget_id = budget_id}}]

----------------------------------------------------------------------------
(* Budgets, transactions and reports, one request at a time *)

ReportBudgetInputs ==
    [year : Years, name : Names,
     line_items : {<<>>,
                   <<[category_id |-> 1, yearly_amount |-> 1300]>>,
                   <<[category_id |-> 1, yearly_amount |-> 1300],
                     [category_id |-> 2, yearly_amount |-> 1300]>>}]

CreateReportedBudget == \E d \in ReportBudgetInputs : CreateBudgetOf(d)

\* POST /transactions
CreateTransaction ==
    \E t \in TransactionInputs :
        LET free == TransactionIdInputs \ {x.id : x \in db.transactions}
        IN  /\ free # {}
            /\ LET id == Smallest(free, 1)[1]
               IN  /\ db' = [db EXCEPT !.transactions =
                                @ \cup {TransactionRow(id, t.category_id, t.amount,
                                                       t.year, t.month, t.type)}]
                   /\ last' = Response("create_transaction", "ok", id)
            /\ report' = NoReport
            /\ UNCHANGED <<sessions, begun>>

Report(op, id, month, body) ==
    /\ report' = [op |-> op, id |-> id, month |-> month, body |-> body]
    /\ last' = Response(op, IF body.found THEN "ok" ELSE "None", id)
    /\ UNCHANGED <<db, sessions, begun>>

GetBudgetSummary ==
    \E id \in BudgetIdInputs :
        Report("get_budget_summary", id, 0, get_budget_summary(db, id))

GetMonthlyBudgetProgress ==
    \E id \in BudgetIdInputs, month \in Months :
        Report("get_monthly_budget_progress", id, month,
               get_monthly_budget_progress(db, id, month))

NextReports ==
    \/ CreateReportedBudget
    \/ DeleteBudget
    \/ CreateTransaction
    \/ GetBudgetSummary
    \/ GetMonthlyBudgetProgress

SpecReports == Init /\ [][NextReports]_vars

----------------------------------------------------------------------------
(* Claims checked under SpecReports. *)

\* C12: DeleteBudget of an existing budget succeeds and removes that budget and
\* its line items; every other budget, every other line item, the categories
\* and the transactions stay as they were
C12_DeleteBudgetCascades ==
    [][(last'.op = "delete_budget" /\ last'.id \in BudgetIdsOf(db)) =>
        /\ last'.ret = "True"
        /\ db'.budgets = {b \in db.budgets : b.id # last'.id}
        /\ db'.line_items = {i \in db.line_items : i.budget_id # last'.id}
        /\ db'.categories = db.categories
        /\ db'.accounts = db.accounts
        /\ db'.transactions = db.transactions
      ]_vars

\* a budget with a line item was deleted while another budget with a line item
\* and some transactions exist
C12_Witness ==
    /\ last.op = "delete_budget" /\ last.ret = "True"
    /\ db.line_items # {}
    /\ db.transactions # {}
    /\ Cardinality(ItemIdsOf(db)) < Cardinality(1..MaxItemIds)

RECURSIVE TotalOf(_, _)
\* the amounts of the transactions in T added up, transaction by transaction
TotalOf(T, n) ==
    IF n = 0 THEN 0
    ELSE (IF \E t \in T : t.id = n THEN (CHOOSE t \in T : t.id = n).amount ELSE 0)
         + TotalOf(T, n - 1)

ExpensesOfYear(year) == {t \in db.transactions : t.type = "EXPENSE" /\ t.year = year}

ExpensesOfMonth(year, month) == {t \in ExpensesOfYear(year) : t.month = month}

ReportedBudget == CHOOSE b \in db.budgets : b.id = report.id

SummaryReported == report.op = "get_budget_summary" /\ report.body.found

MonthlyReported == report.op = "get_monthly_budget_progress" /\ report.body.found

\* C16: GetBudgetSummary returns total_spent = the sum of the EXPENSE
\* transactions dated in the budget's year (0 when there are none) and
\* remaining = total_amount - total_spent
C16_SummaryTotals ==
    SummaryReported =>
        /\ report.body.total_spent =
                TotalOf(ExpensesOfYear(ReportedBudget.year), MaxTransactions)
        /\ report.body.remaining = ReportedBudget.total_amount - report.body.total_spent

\* a summary counted an expense of the budget's year and left out a transaction
\* of type INCOME or of another year
C16_Witness ==
    /\ SummaryReported
    /\ report.body.total_spent > 0
    /\ \E t \in db.transactions : t \notin ExpensesOfYear(ReportedBudget.year)

\* C17: in GetBudgetSummary each line item's spent is the sum of the EXPENSE
\* transactions of its category dated in the budget's year (0 when there are
\* none) and its remaining is yearly_amount - spent
C17_SummaryPerLineItem ==
    SummaryReported =>
        /\ Cardinality(report.body.categories_summary)
                = Cardinality(LineItemsOf(db, report.id))
        /\ \A i \in LineItemsOf(db, report.id) :
            \E e \in report.body.categories_summary :
                /\ e.category_id = i.category_id
                /\ e.spent = TotalOf({t \in ExpensesOfYear(ReportedBudget.year) :
                                        t.category_id = i.category_id}, MaxTransactions)
                /\ e.remaining = i.yearly_amount - e.spent

\* a summary with a line item that spent something and a line item that spent
\* nothing, while an expense of another year exists
C17_Witness ==
    /\ SummaryReported
    /\ \E e \in report.body.categories_summary : e.spent > 0
    /\ \E e \in report.body.categories_summary : e.spent = 0 /\ e.remaining = e.budgeted
    /\ \E t \in db.transactions : t.type = "EXPENSE" /\ t.year # ReportedBudget.year

\* C18: on a budget whose total_amount is 0, GetBudgetSummary and
\* GetMonthlyBudgetProgress return progress_percentage = 0, whatever
\* transactions exist
C18_ZeroTotalGivesZeroProgress ==
    ((SummaryReported \/ MonthlyReported) /\ ReportedBudget.total_amount = 0) =>
        report.body.progress_percentage = ZeroPercentage

\* a summary of a budget without line items in whose year an expense exists
C18_Witness ==
    /\ SummaryReported
    /\ ReportedBudget.total_amount = 0
    /\ LineItemsOf(db, report.id) = {}
    /\ ExpensesOfYear(ReportedBudget.year) # {}

\* C19: GetMonthlyBudgetProgress returns budgeted_amount = total_amount / 12,
\* spent_amount = the sum of the EXPENSE transactions of the budget's year and
\* the given month, and remaining_amount = budgeted_amount - spent_amount
C19_MonthlyTotals ==
    MonthlyReported =>
        /\ 12 * report.body.budgeted_amount = FromNumeric(ReportedBudget.total_amount)
        /\ report.body.spent_amount =
                FromNumeric(TotalOf(ExpensesOfMonth(ReportedBudget.year, report.month),
                                    MaxTransactions))
        /\ report.body.remaining_amount
                = report.body.budgeted_amount - report.body.spent_amount

\* a monthly report counted one expense and left out an expense of the same
\* year dated in another month
C19_Witness ==
    /\ MonthlyReported
    /\ report.body.spent_amount > 0
    /\ report.body.budgeted_amount > 0
    /\ \E t \in ExpensesOfYear(ReportedBudget.year) : t.month # report.month

\* C20: in GetMonthlyBudgetProgress each line item's spent is the sum of the
\* EXPENSE transactions of its category in the budget's year and the given
\* month, its budget is the stored monthly_amount and its remaining is
\* monthly_amount - spent
C20_MonthlyPerLineItemExpenseOnly ==
    MonthlyReported =>
        \A i \in LineItemsOf(db, report.id) :
            \E e \in report.body.categories :
                /\ e.category_id = i.category_id
                /\ e.monthly_budget = i.monthly_amount
                /\ e.spent = TotalOf({t \in ExpensesOfMonth(ReportedBudget.year, report.month) :
                                        t.category_id = i.category_id}, MaxTransactions)
                /\ e.remaining = i.monthly_amount - e.spent

----------------------------------------------------------------------------
(* Budgets patched one request at a time, with patches of every field *)

EditNames == Names \cup {"Household"}

NullS == [kind |-> "null", v |-> ""]

EditBudgetCreateInputs ==
    [year : Years, name : Names,
     line_items : {<<>>, <<[category_id |-> 1, yearly_amount |-> 130]>>}]

EditBudgetUpdateInputs ==
    [year : {Unset, Null} \cup {Val(y) : y \in Years},
     name : {UnsetS} \cup {Val(n) : n \in EditNames},
     is_active : {UnsetS, NullS, Val("True"), Val("False")}]

CreateEditedBudget == \E d \in EditBudgetCreateInputs : CreateBudgetOf(d)

EditBudget ==
    \E id \in BudgetIdInputs, d \in EditBudgetUpdateInputs : UpdateBudgetOf(id, d)

NextEdits ==
    \/ CreateEditedBudget
    \/ EditBudget

SpecEdits == Init /\ [][NextEdits]_vars

----------------------------------------------------------------------------
(* Line items edited one request at a time, with amounts of more than 2
   decimal places *)

\* yearly_amount in mills: 0.004, 0.056, 0.06
SubCentAmountInputs == {4, 56, 60}

SubCentBudgetCreateInputs ==
    [year : Years, name : Names,
     line_items : {<<>>} \cup {<<[category_id |-> 1, yearly_amount |-> a]>> :
                                a \in SubCentAmountInputs}]

SubCentLineItemInputs == [category_id : CategoryIds, yearly_amount : SubCentAmountInputs]

SubCentLineItemUpdateInputs ==
    [category_id : {Unset, Val(2)},
     yearly_amount : {Unset} \cup {Val(a) : a \in SubCentAmountInputs}]

CreateSubCentBudget == \E d \in SubCentBudgetCreateInputs : CreateBudgetOf(d)

AddSubCentLineItem ==
    \E id \in BudgetIdInputs, d \in SubCentLineItemInputs : AddLineItemOf(id, d)

UpdateSubCentLineItem ==
    \E id \in ItemIdInputs, d \in SubCentLineItemUpdateInputs : UpdateLineItemOf(id, d)

NextAmounts ==
    \/ CreateSubCentBudget
    \/ AddSubCentLineItem
    \/ UpdateSubCentLineItem
    \/ DeleteLineItem

SpecAmounts == Init /\ [][NextAmounts]_vars

----------------------------------------------------------------------------
(* Claims checked under SpecAmounts and SpecEdits. *)

\* C13: UpdateLineItem that sets yearly_amount to the value the line item has
\* leaves the budget's total_amount and the line item's monthly_amount unchanged
C13_SameAmountUpdateChangesNothing ==
    [][last'.op = "update_budget_line_item" =>
        \A d \in SubCentLineItemUpdateInputs :
            (/\ d.category_id.kind = "unset"
             /\ d.yearly_amount.kind = "val"
             /\ \E i \in db.line_items :
                    i.id = last'.id /\ FromNumeric(i.yearly_amount) = Dec(d.yearly_amount.v)
             /\ UpdateLineItemOf(last'.id, d))
            => /\ \A b \in db.budgets :
                    \E c \in db'.budgets : c.id = b.id /\ c.total_amount = b.total_amount
               /\ \A i \in db.line_items :
                    i.id = last'.id =>
                        \E j \in db'.line_items :
                            j.id = i.id /\ j.monthly_amount = i.monthly_amount
      ]_vars

\* C14: every line item's yearly_amount is strictly positive
C14_YearlyAmountPositive ==
    \A i \in db.line_items : i.yearly_amount > 0

\* the value a patch gives a field: the field's own when the patch leaves it out
Patched(field, old) ==
    IF field.kind = "unset" THEN old
    ELSE IF field.kind = "null" THEN "None"
    ELSE field.v

----------------------------------------------------------------------------
(* The dashboard of BudgetService.  Its figures are floats of Decimals that no
   column rounds; they are counted in the unit of Dec, in which
   yearly_amount / 12 is exact. *)

\* the rows get_active_budget can return (.first() of a query that has no
\* ORDER BY: any one of the active budgets, or none when there is none)
get_active_budget_results(s) ==
    LET rows == {b \in s.budgets : b.is_active = "True"}
    IN  IF rows = {} THEN {{}} ELSE {{b} : b \in rows}

\* line_item.category: the row the relationship loads, none when no row has the id
category_of(s, line_item) == {c \in s.categories : c.id = line_item.category_id}

\* the sum of one type up to the month, with the year left out of the filter
ytd_actual_query_AnyYear(s, type, current_year, current_month) ==
    SumAmount({t \in s.transactions : t.type = type /\ t.month <= current_month})

\* sum(Transaction.amount) of one type, in the year, up to the month
ytd_actual_query(s, type, current_year, current_month) ==
    SumAmount({t \in s.transactions :
                    t.type = type /\ t.year = current_year /\ t.month <= current_month})

\* the per-category sums with the months after current_month counted too
category_actuals_query_AnyMonth(s, current_year, current_month) ==
    {[id |-> c.id,
      actual |-> SumAmount({t \in s.transactions :
                    t.category_id = c.id /\ t.year = current_year})] :
     c \in {x \in s.categories :
                \E t \in s.transactions :
                    t.category_id = x.id /\ t.year = current_year}}

\* categories joined with their transactions of the year up to the month, of
\* either type, grouped by category
category_actuals_query(s, current_year, current_month) ==
    {[id |-> c.id,
      actual |-> SumAmount({t \in s.transactions :
                    /\ t.category_id = c.id
                    /\ t.year = current_year
                    /\ t.month <= current_month})] :
     c \in {x \in s.categories :
                \E t \in s.transactions :
                    /\ t.category_id = x.id
                    /\ t.year = current_year
                    /\ t.month <= current_month}}

\* actual_lookup.get(cat_id, Decimal('0'))
actual_lookup(category_actuals, cat_id) ==
    IF \E cat \in category_actuals : cat.id = cat_id
    THEN (CHOOSE cat \in category_actuals : cat.id = cat_id).actual
    ELSE 0

RECURSIVE SumYtd(_, _)
\* ytd_income_budget += ytd_amount, over the line items of one list
SumYtd(I, current_month) ==
    IF I = {} THEN 0
    ELSE LET i == CHOOSE x \in I : TRUE
         IN  (FromNumeric(i.yearly_amount) \div 12) * current_month
                + SumYtd(I \ {i}, current_month)

\* one entry of income_categories or expense_categories
dashboard_category(s, line_item, current_month, category_actuals) ==
    LET monthly_amount == FromNumeric(line_item.yearly_amount) \div 12
        ytd_amount == monthly_amount * current_month
        ytd_actual == FromNumeric(actual_lookup(category_actuals, line_item.category_id))
    IN  [id |-> line_item.category_id,
         name |-> (CHOOSE c \in category_of(s, line_item) : TRUE).name,
         yearly_budget |-> ToFloat(FromNumeric(line_item.yearly_amount)),
         monthly_budget |-> ToFloat(monthly_amount),
         ytd_budget |-> ToFloat(ytd_amount),
         ytd_actual |-> ToFloat(ytd_actual),
         ytd_difference |-> ToFloat(ytd_amount) - ToFloat(ytd_actual)]

\* the line items of one list: those whose category resolves and has the type
line_items_of_type(s, line_items, type) ==
    {i \in line_items : \E c \in category_of(s, i) : c.type = type}

\* active_budget is what get_active_budget returned and line_items the rows
\* active_budget.line_items loaded; the categories and the transactions are
\* read from s
get_dashboard_data(s, active_budget, line_items, current_month) ==
    IF active_budget = {} THEN NotFound
    ELSE
    LET budget == CHOOSE b \in active_budget : TRUE
        current_year == budget.year
        income == line_items_of_type(s, line_items, "INCOME")
        expense == line_items_of_type(s, line_items, "EXPENSE")
        category_actuals == category_actuals_query(s, current_year, current_month)
    IN  [found |-> TRUE,
         budget_id |-> budget.id,
         current_month |-> current_month,
         current_year |-> current_year,
         ytd_income_budget |-> ToFloat(SumYtd(income, current_month)),
         ytd_income_actual |->
            ToFloat(FromNumeric(ytd_actual_query(s, "INCOME", current_year, current_month))),
         ytd_expense_budget |-> ToFloat(SumYtd(expense, current_month)),
         ytd_expense_actual |->
            ToFloat(FromNumeric(ytd_actual_query(s, "EXPENSE", current_year, current_month))),
         income_categories |->
            {dashboard_category(s, i, current_month, category_actuals) : i \in income},
         expense_categories |->
            {dashboard_category(s, i, current_month, category_actuals) : i \in expense}]

\* HTTPException(status_code=...)
HTTPException(status_code) == [ret |-> status_code, body |-> NotFound]

\* GET /dashboard that hands any month to the service
api_get_dashboard_data_NoMonthCheck(s, active_budget, line_items, month) ==
    LET dashboard_data == get_dashboard_data(s, active_budget, line_items, month)
    IN  IF ~dashboard_data.found THEN HTTPException("404")
        ELSE [ret |-> "ok", body |-> dashboard_data]

\* GET /dashboard?month=
api_get_dashboard_data(s, active_budget, line_items, month) ==
    IF month < 1 \/ month > 12 THEN HTTPException("400")
    ELSE
    LET dashboard_data == get_dashboard_data(s, active_budget, line_items, month)
    IN  IF ~dashboard_data.found THEN HTTPException("404")
        ELSE [ret |-> "ok", body |-> dashboard_data]

\* GET /{budget_id}/monthly/{month}
api_get_monthly_budget_progress(s, budget_id, month) ==
    IF month < 1 \/ month > 12 THEN HTTPException("400")
    ELSE
    LET progress == get_monthly_budget_progress(s, budget_id, month)
    IN  IF ~progress.found THEN HTTPException("404")
        ELSE [ret |-> "ok", body |-> progress]

\* GET /{budget_id}/summary
api_get_budget_summary(s, budget_id) ==
    LET summary == get_budget_summary(s, budget_id)
    IN  IF ~summary.found THEN HTTPException("404")
        ELSE [ret |-> "ok", body |-> summary]

----------------------------------------------------------------------------
(* Budgets, transactions and the three reports behind their endpoints, one
   request at a time *)

\* the months a client can ask for
MonthInputs == {0, 1, 2, 6, 12, 13}

DashboardBudgetInputs ==
    [year : Years, name : Names,
     line_items : {<<[category_id |-> 1, yearly_amount |-> 1300]>>,
                   <<[category_id |-> 1, yearly_amount |-> 1300],
                     [category_id |-> 2, yearly_amount |-> 1200000]>>}]

DashboardTransactionInputs ==
    [category_id : CategoryIds, amount : {5}, year : Years, month : Months,
     type : TransactionTypes]

CreateDashboardBudget == \E d \in DashboardBudgetInputs : CreateBudgetOf(d)

\* PUT /{budget_id} with {"is_active": false}
DeactivateBudget ==
    \E id \in BudgetIdInputs :
        UpdateBudgetOf(id, [year |-> Unset, name |-> UnsetS, is_active |-> Val("False")])

CreateDashboardTransaction ==
    \E t \in DashboardTransactionInputs :
        LET free == TransactionIdInputs \ {x.id : x \in db.transactions}
        IN  /\ free # {}
            /\ LET id == Smallest(free, 1)[1]
               IN  /\ db' = [db EXCEPT !.transactions =
                                @ \cup {TransactionRow(id, t.category_id, t.amount,
                                                       t.year, t.month, t.type)}]
                   /\ last' = Response("create_transaction", "ok", id)
            /\ report' = NoReport
            /\ UNCHANGED <<sessions, begun>>

\* a GET request whose handler deletes the transactions it has summed
Get_DeletingTransactions(op, id, month, r) ==
    /\ report' = [op |-> op, id |-> id, month |-> month, body |-> r.body]
    /\ last' = Response(op, r.ret, id)
    /\ db' = [db EXCEPT !.transactions = {}]
    /\ UNCHANGED <<sessions, begun>>

\* a GET request: the response of its handler, which writes nothing and whose
\* session get_db closes
Get(op, id, month, r) ==
    /\ report' = [op |-> op, id |-> id, month |-> month, body |-> r.body]
    /\ last' = Response(op, r.ret, id)
    /\ UNCHANGED <<db, sessions, begun>>

RequestBudgetSummary ==
    \E id \in BudgetIdInputs :
        Get("get_budget_summary", id, 0, api_get_budget_summary(db, id))

RequestMonthlyBudgetProgress ==
    \E id \in BudgetIdInputs, month \in MonthInputs :
        Get("get_monthly_budget_progress", id, month,
            api_get_monthly_budget_progress(db, id, month))

RequestDashboardData ==
    \E month \in MonthInputs :
        \E active_budget \in get_active_budget_results(db) :
            Get("get_dashboard_data", 0, month,
                api_get_dashboard_data(db, active_budget,
                    {i \in db.line_items : \E b \in active_budget : i.budget_id = b.id},
                    month))

NextDashboard ==
    \/ CreateDashboardBudget
    \/ DeactivateBudget
    \/ CreateDashboardTransaction
    \/ RequestBudgetSummary
    \/ RequestMonthlyBudgetProgress
    \/ RequestDashboardData

SpecDashboard == Init /\ [][NextDashboard]_vars

----------------------------------------------------------------------------
(* Claims checked under SpecDashboard. *)

DashboardReported == report.op = "get_dashboard_data" /\ report.body.found

ReportedCategories == report.body.income_categories \cup report.body.expense_categories

\* the transactions of the year up to the month
YtdTransactions(year, month) ==
    {t \in db.transactions : t.year = year /\ t.month <= month}

\* C21: a request for monthly progress or dashboard data with a month outside
\* 1..12 is answered 400 and carries no figures; a month in 1..12 is never
\* answered 400, and is answered with figures when the budget asked for exists
C21_MonthOutsideRangeIsRejected ==
    report.op \in {"get_monthly_budget_progress", "get_dashboard_data"} =>
        IF report.month \notin 1..12
        THEN last.ret = "400" /\ report.body = NotFound
        ELSE /\ last.ret \in {"ok", "404"}
             /\ last.ret = "ok" <=> report.body.found
             /\ report.op = "get_monthly_budget_progress" =>
                    (report.body.found <=> report.id \in BudgetIdsOf(db))
             /\ report.op = "get_dashboard_data" =>
                    (report.body.found <=> \E b \in db.budgets : b.is_active = "True")

\* the dashboard of month 13 was refused while a budget was active
C21_Witness ==
    /\ report.op = "get_dashboard_data"
    /\ report.month = 13
    /\ last.ret = "400"
    /\ \E b \in db.budgets : b.is_active = "True" /\ LineItemsOf(db, b.id) # {}

\* C22: two dashboards of the same month read from the same store report on
\* the same budget
C22_DashboardBudgetIsDetermined ==
    [][(/\ report.op = "get_dashboard_data" /\ report.body.found
        /\ report'.op = "get_dashboard_data" /\ report'.body.found
        /\ report'.month = report.month
        /\ db' = db)
       => report'.body.budget_id = report.body.budget_id]_vars

\* C23: each category of the dashboard has ytd_budget = the stored
\* monthly_amount of its line item * month
C23_YtdBudgetIsStoredMonthlyTimesMonth ==
    DashboardReported =>
        \A e \in ReportedCategories :
            \E i \in LineItemsOf(db, report.body.budget_id) :
                /\ i.category_id = e.id
                /\ e.ytd_budget = FromNumeric(i.monthly_amount) * report.month

\* C24: the dashboard's ytd_income_actual and ytd_expense_actual are the sums of
\* the INCOME and of the EXPENSE transactions dated in the budget's year, in a
\* month up to the given one
C24_YtdActualTotals ==
    DashboardReported =>
        LET T == YtdTransactions(report.body.current_year, report.month)
        IN  /\ report.body.current_year
                    = (CHOOSE b \in db.budgets : b.id = report.body.budget_id).year
            /\ report.body.ytd_income_actual
                    = FromNumeric(TotalOf({t \in T : t.type = "INCOME"}, MaxTransactions))
            /\ report.body.ytd_expense_actual
                    = FromNumeric(TotalOf({t \in T : t.type = "EXPENSE"}, MaxTransactions))

\* a dashboard counted an income and left out an expense of a later month or of
\* another year
C24_Witness ==
    /\ DashboardReported
    /\ report.body.ytd_income_actual > 0
    /\ report.body.ytd_expense_actual = 0
    /\ \E t \in db.transactions :
            /\ t.type = "EXPENSE"
            /\ t \notin YtdTransactions(report.body.current_year, report.month)

\* C25: each category of the dashboard has ytd_actual = the sum of the
\* category's transactions dated in the budget's year, in a month up to the
\* given one (0 when there are none), and ytd_difference = ytd_budget - ytd_actual
C25_YtdActualPerCategory ==
    DashboardReported =>
        \A e \in ReportedCategories :
            /\ e.ytd_actual =
                    FromNumeric(TotalOf({t \in YtdTransactions(report.body.current_year,
                                                               report.month) :
                                            t.category_id = e.id},
                                        MaxTransactions))
            /\ e.ytd_difference = e.ytd_budget - e.ytd_actual

\* a dashboard with a category that has transactions up to the month, one that
\* has none, and a transaction of a later month
C25_Witness ==
    /\ DashboardReported
    /\ \E e \in ReportedCategories : e.ytd_actual > 0
    /\ \E e \in ReportedCategories : e.ytd_actual = 0 /\ e.ytd_difference = e.ytd_budget
    /\ \E t \in db.transactions :
            t.year = report.body.current_year /\ t.month > report.month

\* C26: a request for the summary, the monthly progress or the dashboard leaves
\* the budgets, line items, categories and transactions as they were
C26_ReportsAreReadOnly ==
    [][report'.op \in {"get_budget_summary", "get_monthly_budget_progress",
                       "get_dashboard_data"}
       => db' = db]_vars

\* a dashboard was served from a store that holds transactions, after another
\* report
C26_Witness ==
    /\ DashboardReported
    /\ db.transactions # {}
    /\ Cardinality(db.budgets) = 2

----------------------------------------------------------------------------
(* Claims about set_active_budget, checked under Spec. *)

\* C29: SetActiveBudget(B) leaves the is_active of every budget of another year
\* than B's, and the year, name, total_amount and line items of every budget,
\* as they were
C29_SetActiveTouchesOnlyItsYear ==
    [][last'.op = "set_active_budget" =>
        /\ db'.line_items = db.line_items
        /\ BudgetIdsOf(db') = BudgetIdsOf(db)
        /\ \A b \in db.budgets :
                \E c \in db'.budgets :
                    /\ c.id = b.id
                    /\ c.year = b.year
                    /\ c.name = b.name
                    /\ c.total_amount = b.total_amount
                    /\ (\A t \in get_budget_by_id(db, last'.id) : b.year # t.year)
                            => c.is_active = b.is_active
      ]_vars

\* an inactive budget was activated while the budget of another year is active
\* and has line items
C29_Witness ==
    /\ last.op = "set_active_budget" /\ last.ret = "ok"
    /\ \E b \in db.budgets : b.id = last.id /\ b.is_active = "True"
    /\ \E o \in db.budgets :
            /\ o.id # last.id
            /\ o.is_active = "True"
            /\ \A b \in db.budgets : b.id = last.id => o.year # b.year
            /\ LineItemsOf(db, o.id) # {}

----------------------------------------------------------------------------
(* The categories endpoints (app/api/v1/categories.py).  A category's type is
   any string the client sends. *)

MaxCategoryIds == 3

CategoryIdInputs == 1..MaxCategoryIds

CategoryTypeInputs == {"INCOME", "EXPENSE", "Transfer"}

CategoryNameInputs == {"Groceries", "Savings"}

CategoryCreateInputs == [name : CategoryNameInputs, type : CategoryTypeInputs]

CategoryUpdateInputs ==
    [name : {UnsetS},
     type : {UnsetS, NullS} \cup {[kind |-> "val", v |-> t] : t \in CategoryTypeInputs}]

CategoryRow(id, name, type) == [id |-> id, name |-> name, type |-> type]

\* POST /categories
create_category(s, category, newId) ==
    IF \E c \in s.categories : c.name = category.name
    THEN [ret |-> "IntegrityError:categories_name_key", db |-> s]
    ELSE [ret |-> "ok",
          db |-> [s EXCEPT !.categories =
                        @ \cup {CategoryRow(newId, category.name, category.type)}]]

\* PUT /categories/{category_id}
update_category(s, category_id, category_update) ==
    IF ~\E c \in s.categories : c.id = category_id THEN [ret |-> "404", db |-> s]
    ELSE
    LET category == CHOOSE c \in s.categories : c.id = category_id
        new == [category EXCEPT
                    !.name = IF category_update.name.kind = "unset" THEN @
                             ELSE category_update.name.v,
                    !.type = IF category_update.type.kind = "unset" THEN @
                             ELSE category_update.type.v]
    IN  IF category_update.type.kind = "null" \/ category_update.name.kind = "null"
        THEN [ret |-> IntegrityError("not_null"), db |-> s]
        ELSE IF \E c \in s.categories : c.id # category_id /\ c.name = new.name
        THEN [ret |-> "IntegrityError:categories_name_key", db |-> s]
        ELSE [ret |-> "ok",
              db |-> [s EXCEPT !.categories = (@ \ {category}) \cup {new}]]

\* DELETE /categories/{category_id}: refused by the foreign keys of the line
\* items and of the transactions that hold the category
delete_category(s, category_id) ==
    IF ~\E c \in s.categories : c.id = category_id THEN [ret |-> "404", db |-> s]
    ELSE IF \/ \E i \in s.line_items : i.category_id = category_id
            \/ \E t \in s.transactions : t.category_id = category_id
    THEN [ret |-> IntegrityError("foreign_key"), db |-> s]
    ELSE [ret |-> "ok",
          db |-> [s EXCEPT !.categories = {c \in @ : c.id # category_id}]]

\* a request to the categories endpoints
ServeCategory(op, id, r) ==
    /\ db' = r.db
    /\ last' = Response(op, r.ret, id)
    /\ report' = NoReport
    /\ UNCHANGED <<sessions, begun>>

CreateCategory ==
    \E category \in CategoryCreateInputs :
        LET free == CategoryIdInputs \ {c.id : c \in db.categories}
        IN  /\ free # {}
            /\ LET id == Smallest(free, 1)[1]
               IN  ServeCategory("create_category", id, create_category(db, category, id))

UpdateCategory ==
    \E id \in CategoryIdInputs, category_update \in CategoryUpdateInputs :
        ServeCategory("update_category", id, update_category(db, id, category_update))

DeleteCategory ==
    \E id \in CategoryIdInputs :
        ServeCategory("delete_category", id, delete_category(db, id))

----------------------------------------------------------------------------
(* One budget, the categories and the dashboard, one request at a time *)

CategorizedBudgetInputs ==
    [year : {2025}, name : Names,
     line_items : {<<[category_id |-> 1, yearly_amount |-> 1200]>>,
                   <<[category_id |-> 1, yearly_amount |-> 1200],
                     [category_id |-> 2, yearly_amount |-> 2400]>>}]

CategorizedLineItemUpdateInputs ==
    [category_id : {Val(c) : c \in CategoryIdInputs}, yearly_amount : {Unset}]

CreateCategorizedBudget == \E d \in CategorizedBudgetInputs : CreateBudgetOf(d)

ChangeLineItemCategory ==
    \E id \in ItemIdInputs, d \in CategorizedLineItemUpdateInputs : UpdateLineItemOf(id, d)

NextCategories ==
    \/ CreateCategorizedBudget
    \/ ChangeLineItemCategory
    \/ DeleteLineItem
    \/ CreateCategory
    \/ UpdateCategory
    \/ DeleteCategory
    \/ RequestDashboardData

SpecCategories == Init /\ [][NextCategories]_vars

\* C28: in the dashboard every line item of the active budget is in exactly one
\* of income_categories and expense_categories, and ytd_income_budget +
\* ytd_expense_budget is the sum of ytd_budget over the line items of the budget
C28_EveryLineItemInOneList ==
    DashboardReported =>
        LET I == LineItemsOf(db, report.body.budget_id)
            inIncome(i) == \E e \in report.body.income_categories : e.id = i.category_id
            inExpense(i) == \E e \in report.body.expense_categories : e.id = i.category_id
        IN  /\ \A i \in I : inIncome(i) # inExpense(i)
            /\ report.body.ytd_income_budget + report.body.ytd_expense_budget
                    = SumYtd(I, report.month)

----------------------------------------------------------------------------
(* The dashboard served while other requests commit.  get_dashboard_data loads
   the active budget and its line_items, then loads each line item's category
   (a lazy relationship: one SELECT per line item) and sums the transactions;
   each statement reads what is committed when it runs. *)

\* the session of the dashboard request: the rows it has loaded
Loaded(active_budget, line_items, month) ==
    <<[active_budget |-> active_budget, line_items |-> line_items, month |-> month]>>

BeginDashboardData ==
    /\ sessions = <<>>
    /\ \E month \in {1} :
        \E active_budget \in get_active_budget_results(db) :
            sessions' = Loaded(active_budget,
                               {i \in db.line_items :
                                    \E b \in active_budget : i.budget_id = b.id},
                               month)
    /\ UNCHANGED <<db, begun, last, report>>

FinishDashboardData ==
    /\ sessions # <<>>
    /\ LET r == api_get_dashboard_data(db, sessions[1].active_budget,
                                       sessions[1].line_items, sessions[1].month)
       IN  /\ report' = [op |-> "get_dashboard_data", id |-> 0,
                         month |-> sessions[1].month, body |-> r.body]
           /\ last' = Response("get_dashboard_data", r.ret, 0)
    /\ sessions' = <<>>
    /\ UNCHANGED <<db, begun>>

NextLazyLoad ==
    \/ CreateCategorizedBudget
    \/ DeleteLineItem
    \/ CreateCategory
    \/ DeleteCategory
    \/ BeginDashboardData
    \/ FinishDashboardData

SpecLazyLoad == Init /\ [][NextLazyLoad]_vars

\* C27: the dashboard has an entry for every line item it loaded, also for one
\* whose category does not resolve, which it names "Unknown"
C27_UnresolvedCategoryIsReported ==
    [][(sessions # <<>> /\ report'.op = "get_dashboard_data" /\ report'.body.found) =>
        \A i \in sessions[1].line_items :
            \E e \in report'.body.income_categories \cup report'.body.expense_categories :
                /\ e.id = i.category_id
                /\ category_of(db, i) = {} => e.name = "Unknown"
      ]_vars

----------------------------------------------------------------------------
(* The accounts endpoints (app/api/v1/accounts.py), one request at a time *)

MaxAccountIds == 2

AccountIdInputs == 1..(MaxAccountIds + 1)

\* the account types the store is seeded with, and an id that is none of them
AccountTypeIds == {1}

AccountTypeIdInputs == {1, 9}

AccountCreateInputs ==
    [name : {"Chequing", "Savings"}, account_type_id : AccountTypeIdInputs,
     is_active : BOOLEAN]

AccountUpdateInputs ==
    [is_active : {[kind |-> "unset", v |-> FALSE], [kind |-> "null", v |-> FALSE],
                  [kind |-> "val", v |-> TRUE], [kind |-> "val", v |-> FALSE]}]

AccountRow(id, name, account_type_id, is_active) ==
    [id |-> id, name |-> name, account_type_id |-> account_type_id, is_active |-> is_active]

get_account(s, account_id) == {a \in s.accounts : a.id = account_id}

\* POST /accounts
create_account(s, account, newId) ==
    IF account.account_type_id \notin AccountTypeIds THEN [ret |-> "400", db |-> s]
    ELSE [ret |-> "ok",
          db |-> [s EXCEPT !.accounts =
                        @ \cup {AccountRow(newId, account.name, account.account_type_id,
                                           account.is_active)}]]

\* PUT /accounts/{account_id}
update_account(s, account_id, account_update) ==
    IF get_account(s, account_id) = {} THEN [ret |-> "404", db |-> s]
    ELSE
    LET account == CHOOSE a \in get_account(s, account_id) : TRUE
    IN  IF account_update.is_active.kind = "null" THEN [ret |-> "400", db |-> s]
        ELSE IF account_update.is_active.kind = "unset" THEN [ret |-> "ok", db |-> s]
        ELSE [ret |-> "ok",
              db |-> [s EXCEPT !.accounts =
                        (@ \ {account})
                            \cup {[account EXCEPT !.is_active = account_update.is_active.v]}]]

\* DELETE /accounts/{account_id} that deletes the row
delete_account_Hard(s, account_id) ==
    IF get_account(s, account_id) = {} THEN [ret |-> "404", db |-> s]
    ELSE
    LET account == CHOOSE a \in get_account(s, account_id) : TRUE
    IN  IF ~account.is_active THEN [ret |-> "400", db |-> s]
        ELSE [ret |-> "ok", db |-> [s EXCEPT !.accounts = @ \ {account}]]

\* DELETE /accounts/{account_id}
delete_account(s, account_id) ==
    IF get_account(s, account_id) = {} THEN [ret |-> "404", db |-> s]
    ELSE
    LET account == CHOOSE a \in get_account(s, account_id) : TRUE
    IN  IF ~account.is_active THEN [ret |-> "400", db |-> s]
        ELSE [ret |-> "ok",
              db |-> [s EXCEPT !.accounts =
                        (@ \ {account}) \cup {[account EXCEPT !.is_active = FALSE]}]]

\* POST /accounts/{account_id}/reactivate
reactivate_account(s, account_id) ==
    IF get_account(s, account_id) = {} THEN [ret |-> "404", db |-> s]
    ELSE
    LET account == CHOOSE a \in get_account(s, account_id) : TRUE
    IN  IF account.is_active THEN [ret |-> "400", db |-> s]
        ELSE [ret |-> "ok",
              db |-> [s EXCEPT !.accounts =
                        (@ \ {account}) \cup {[account EXCEPT !.is_active = TRUE]}]]

\* GET /accounts?include_inactive=
get_accounts(s, include_inactive) ==
    IF ~include_inactive THEN {a \in s.accounts : a.is_active = TRUE}
    ELSE s.accounts

\* a request to the accounts endpoints
ServeAccount(op, id, r) ==
    /\ db' = r.db
    /\ last' = Response(op, r.ret, id)
    /\ report' = NoReport
    /\ UNCHANGED <<sessions, begun>>

CreateAccount ==
    \E account \in AccountCreateInputs :
        LET free == (1..MaxAccountIds) \ {a.id : a \in db.accounts}
        IN  /\ free # {}
            /\ LET id == Smallest(free, 1)[1]
               IN  ServeAccount("create_account", id, create_account(db, account, id))

UpdateAccount ==
    \E id \in AccountIdInputs, account_update \in AccountUpdateInputs :
        ServeAccount("update_account", id, update_account(db, id, account_update))

DeleteAccount ==
    \E id \in AccountIdInputs :
        ServeAccount("delete_account", id, delete_account(db, id))

ReactivateAccount ==
    \E id \in AccountIdInputs :
        ServeAccount("reactivate_account", id, reactivate_account(db, id))

GetAccounts ==
    \E include_inactive \in BOOLEAN :
        /\ report' = [op |-> "get_accounts", id |-> 0, month |-> 0,
                      body |-> [found |-> TRUE, include_inactive |-> include_inactive,
                                accounts |-> get_accounts(db, include_inactive)]]
        /\ last' = Response("get_accounts", "ok", 0)
        /\ UNCHANGED <<db, sessions, begun>>

NextAccounts ==
    \/ CreateAccount
    \/ UpdateAccount
    \/ DeleteAccount
    \/ ReactivateAccount
    \/ GetAccounts

SpecAccounts == Init /\ [][NextAccounts]_vars

\* C30: no request removes an account; delete_account on an active account
\* succeeds and makes it inactive, on an inactive one is answered 400;
\* reactivate_account on an inactive account succeeds and makes it active, on an
\* active one is answered 400; a refused call changes nothing; the default
\* listing returns exactly the active accounts
C30_AccountSoftDeleteLifecycle ==
    [][/\ \A a \in db.accounts : \E c \in db'.accounts : c.id = a.id
       /\ \A a \in db.accounts :
            (last'.op = "delete_account" /\ last'.id = a.id) =>
                IF a.is_active
                THEN /\ last'.ret = "ok"
                     /\ db' = [db EXCEPT !.accounts =
                                    (@ \ {a}) \cup {[a EXCEPT !.is_active = FALSE]}]
                ELSE last'.ret = "400" /\ db' = db
       /\ \A a \in db.accounts :
            (last'.op = "reactivate_account" /\ last'.id = a.id) =>
                IF ~a.is_active
                THEN /\ last'.ret = "ok"
                     /\ db' = [db EXCEPT !.accounts =
                                    (@ \ {a}) \cup {[a EXCEPT !.is_active = TRUE]}]
                ELSE last'.ret = "400" /\ db' = db
       /\ (report'.op = "get_accounts" /\ ~report'.body.include_inactive) =>
                report'.body.accounts = {a \in db.accounts : a.is_active}
      ]_vars

\* an account was deactivated while another one is active: it is still there
C30_Witness ==
    /\ last.op = "delete_account" /\ last.ret = "ok"
    /\ \E a \in db.accounts : a.id = last.id /\ ~a.is_active
    /\ \E a \in db.accounts : a.id # last.id /\ a.is_active

====
